---------------------------- MODULE Spec2Model ----------------------------
(***************************************************************************)
(* FileHelper (agentflow_cli/src/app/utils/file_helper.py).                *)
(*                                                                         *)
(* One call of prepare_text or of prepare_text_from_files is followed from *)
(* its entry to its outcome.  Python str and bytes values are sequences of *)
(* code points / byte values; file names are sequences of one-character    *)
(* strings.  A file payload is [head, pad]: the bytes of head followed by  *)
(* pad bytes 0x20, so that payloads around MAX_FILE_SIZE can be written.   *)
(* The await points (file.read, extractor.extract) are states of their     *)
(* own, at which the awaited call returns, raises, or the task is          *)
(* cancelled.  trace records every operation performed on a file.          *)
(***************************************************************************)
EXTENDS Integers, Sequences, FiniteSets, TLC

VARIABLES
    mode,               \* "prepare" | "many": which entry point was called
    text,               \* argument text of prepare_text: [isNone, s]
    file,               \* argument file of prepare_text: [isNone, name, content]
    files,              \* argument files of prepare_text_from_files
    extractorAvailable, \* AsyncTextExtractor is not None (import succeeded)
    pc,                 \* position of the task
    idx,                \* index of the file being processed (0: prepare_text's file)
    content,            \* local file_content of _process_file_input
    exc,                \* exception in flight
    ret,                \* value being returned by _process_file_input
    results,            \* local results of prepare_text_from_files
    outcome,            \* what the entry point returned or raised
    trace,              \* history: operations performed, in order
    extracted,          \* history: idx -> what the extraction capability did
    pfiOut              \* history: idx -> what _process_file_input returned or raised

vars == <<mode, text, file, files, extractorAvailable, pc, idx, content, exc,
          ret, results, outcome, trace, extracted, pfiOut>>

----------------------------------------------------------------------------
(* Bounds of the inputs *)

MaxTextLen == 3
MaxBytes == 2
MaxFiles == 3
MaxExtractLen == 2

TextAlphabet == {97, 98, 32, 9}
SampleBytes == {65, 32, 195, 169, 129}

RECURSIVE SeqsUpTo(_, _)
SeqsUpTo(S, n) ==
    IF n = 0 THEN {<<>>}
    ELSE LET shorter == SeqsUpTo(S, n - 1)
         IN  shorter \cup {Append(s, x) : s \in {t \in shorter : Len(t) = n - 1}, x \in S}

----------------------------------------------------------------------------
(* Class constants *)

MAX_FILE_SIZE == 10 * 1024 * 1024
SUPPORTED_TEXT_EXTENSIONS == << <<".", "t", "x", "t">>, <<".", "r", "t", "f">> >>
SUPPORTED_DOC_EXTENSIONS ==
    << <<".", "p", "d", "f">>, <<".", "d", "o", "c">>, <<".", "d", "o", "c", "x">> >>
SUPPORTED_EXTENSIONS == SUPPORTED_TEXT_EXTENSIONS \o SUPPORTED_DOC_EXTENSIONS
\* variant: a chain without the encodings that accept every byte
ENCODING_FALLBACKS_Narrow == <<"utf-8", "cp1252">>
ENCODING_FALLBACKS == <<"utf-8", "latin-1", "cp1252", "iso-8859-1">>

----------------------------------------------------------------------------
(* Python values *)

NoText == [isNone |-> TRUE, s |-> <<>>]
Text(s) == [isNone |-> FALSE, s |-> s]
EmptyContent == [head |-> <<>>, pad |-> 0]
\* a str value, in the same form as a payload (pad is 0 unless decoded from a padded payload)
Str(s) == [head |-> s, pad |-> 0]
NoFile == [isNone |-> TRUE, name |-> <<>>, content |-> EmptyContent]
File(n, c) == [isNone |-> FALSE, name |-> n, content |-> c]

\* bool(text) for text: str | None
Truthy(t) == ~t.isNone /\ t.s # <<>>
\* bool(file) for file: UploadFile | None (UploadFile defines no __bool__/__len__)
FileGiven(f) == ~f.isNone

NoExc == [cls |-> "none", status |-> 0, detail |-> "", of |-> ""]
ValueError(msg) == [cls |-> "ValueError", status |-> 0, detail |-> msg, of |-> ""]
HTTPException(code, msg) == [cls |-> "HTTPException", status |-> code, detail |-> msg, of |-> ""]
\* an exception that is an Exception but no HTTPException (OSError, RuntimeError, ...)
OtherException == [cls |-> "Exception", status |-> 0, detail |-> "unexpected", of |-> ""]
\* asyncio.CancelledError: a BaseException, not an Exception
CancelledError == [cls |-> "CancelledError", status |-> 0, detail |-> "", of |-> ""]
IsException(e) == e.cls \in {"ValueError", "HTTPException", "Exception"}

Returned(v) == [ok |-> TRUE, val |-> v, exc |-> NoExc]
Raised(e) == [ok |-> FALSE, val |-> <<>>, exc |-> e]
Pending == [ok |-> FALSE, val |-> <<>>, exc |-> NoExc]

Event(i, op, d) == [i |-> i, op |-> op, d |-> d]

----------------------------------------------------------------------------
(* str.strip, str.split, str.join, str.lower, str.endswith *)

\* the code points below 256 for which str.isspace() holds
Whitespace == {9, 10, 11, 12, 13, 28, 29, 30, 31, 32, 133, 160}

RECURSIVE LStrip(_)
LStrip(s) == IF s # <<>> /\ Head(s) \in Whitespace THEN LStrip(Tail(s)) ELSE s

RECURSIVE RStrip(_)
RStrip(s) ==
    IF s # <<>> /\ s[Len(s)] \in Whitespace THEN RStrip(SubSeq(s, 1, Len(s) - 1)) ELSE s

Strip(s) == RStrip(LStrip(s))

\* s.split(): the maximal runs of non-whitespace, in order
RECURSIVE SplitFrom(_, _, _)
SplitFrom(s, word, acc) ==
    IF s = <<>> THEN (IF word = <<>> THEN acc ELSE Append(acc, word))
    ELSE IF Head(s) \in Whitespace
         THEN SplitFrom(Tail(s), <<>>, IF word = <<>> THEN acc ELSE Append(acc, word))
         ELSE SplitFrom(Tail(s), Append(word, Head(s)), acc)

\* variant: s.split(" "), which cuts at every single space and nowhere else
RECURSIVE SplitSpaceFrom(_, _, _)
SplitSpaceFrom(s, word, acc) ==
    IF s = <<>> THEN Append(acc, word)
    ELSE IF Head(s) = 32 THEN SplitSpaceFrom(Tail(s), <<>>, Append(acc, word))
    ELSE SplitSpaceFrom(Tail(s), Append(word, Head(s)), acc)

SplitOnSpaces(s) == SplitSpaceFrom(s, <<>>, <<>>)

Split(s) == SplitFrom(s, <<>>, <<>>)

\* " ".join(words)
RECURSIVE JoinSpace(_)
JoinSpace(words) ==
    IF words = <<>> THEN <<>>
    ELSE IF Len(words) = 1 THEN words[1]
    ELSE words[1] \o <<32>> \o JoinSpace(Tail(words))

Uppers == <<"A", "B", "C", "D", "E", "F", "G", "H", "I", "J", "K", "L", "M",
            "N", "O", "P", "Q", "R", "S", "T", "U", "V", "W", "X", "Y", "Z">>
Lowers == <<"a", "b", "c", "d", "e", "f", "g", "h", "i", "j", "k", "l", "m",
            "n", "o", "p", "q", "r", "s", "t", "u", "v", "w", "x", "y", "z">>

LowerChar(c) ==
    IF \E k \in 1..Len(Uppers) : Uppers[k] = c
    THEN Lowers[CHOOSE k \in 1..Len(Uppers) : Uppers[k] = c]
    ELSE c

Lower(name) == [k \in 1..Len(name) |-> LowerChar(name[k])]

EndsWith(name, ext) ==
    /\ Len(name) >= Len(ext)
    /\ SubSeq(name, Len(name) - Len(ext) + 1, Len(name)) = ext

\* name.endswith(exts) for a tuple of suffixes
EndsWithAny(name, exts) == \E k \in 1..Len(exts) : EndsWith(name, exts[k])

----------------------------------------------------------------------------
(* bytes.decode(encoding), strict error handling *)

DecodeOk(s) == [ok |-> TRUE, s |-> s]
DecodeError == [ok |-> FALSE, s |-> <<>>]

IsCont(b) == b >= 128 /\ b <= 191

\* number of bytes of the UTF-8 sequence led by b (0: b cannot lead one)
Utf8Width(b) ==
    IF b < 128 THEN 1
    ELSE IF b >= 194 /\ b <= 223 THEN 2
    ELSE IF b >= 224 /\ b <= 239 THEN 3
    ELSE IF b >= 240 /\ b <= 244 THEN 4
    ELSE 0

\* the second byte excludes overlong forms, surrogates and values above U+10FFFF
Utf8SecondOk(b1, b2) ==
    IF b1 = 224 THEN b2 >= 160 /\ b2 <= 191
    ELSE IF b1 = 237 THEN b2 >= 128 /\ b2 <= 159
    ELSE IF b1 = 240 THEN b2 >= 144 /\ b2 <= 191
    ELSE IF b1 = 244 THEN b2 >= 128 /\ b2 <= 143
    ELSE IsCont(b2)

RECURSIVE Utf8From(_, _)
Utf8From(b, acc) ==
    IF b = <<>> THEN DecodeOk(acc)
    ELSE LET w == Utf8Width(b[1])
         IN  IF w = 0 \/ Len(b) < w THEN DecodeError
             ELSE IF w = 1 THEN Utf8From(Tail(b), Append(acc, b[1]))
             ELSE IF ~Utf8SecondOk(b[1], b[2]) THEN DecodeError
             ELSE IF w = 2
                  THEN Utf8From(SubSeq(b, 3, Len(b)),
                                Append(acc, (b[1] % 32) * 64 + (b[2] % 64)))
             ELSE IF ~IsCont(b[3]) THEN DecodeError
             ELSE IF w = 3
                  THEN Utf8From(SubSeq(b, 4, Len(b)),
                                Append(acc, (b[1] % 16) * 4096 + (b[2] % 64) * 64
                                            + (b[3] % 64)))
             ELSE IF ~IsCont(b[4]) THEN DecodeError
             ELSE Utf8From(SubSeq(b, 5, Len(b)),
                           Append(acc, (b[1] % 8) * 262144 + (b[2] % 64) * 4096
                                       + (b[3] % 64) * 64 + (b[4] % 64)))

\* latin-1 and iso-8859-1 name the same codec: byte b is code point b
Latin1Decode(b) == DecodeOk(b)

\* cp1252: 0x80..0x9F remapped, five of them undefined (0 below)
Cp1252High ==
    << 8364, 0, 8218, 402, 8222, 8230, 8224, 8225, 710, 8240, 352, 8249, 338, 0, 381, 0,
       0, 8216, 8217, 8220, 8221, 8226, 8211, 8212, 732, 8482, 353, 8250, 339, 0, 382, 376 >>

Cp1252Char(x) == IF x >= 128 /\ x <= 159 THEN Cp1252High[x - 127] ELSE x

Cp1252Decode(b) ==
    IF \E k \in 1..Len(b) : Cp1252Char(b[k]) = 0 /\ b[k] # 0
    THEN DecodeError
    ELSE DecodeOk([k \in 1..Len(b) |-> Cp1252Char(b[k])])

\* head.decode(encoding); an unknown encoding raises LookupError
Decode(b, encoding) ==
    CASE encoding = "utf-8" -> Utf8From(b, <<>>)
      [] encoding \in {"latin-1", "iso-8859-1"} -> Latin1Decode(b)
      [] encoding = "cp1252" -> Cp1252Decode(b)
      [] OTHER -> DecodeError

----------------------------------------------------------------------------
(* _process_text_input, _validate_file_type, _validate_file_size,          *)
(* _decode_text_file and the except clauses, as functions of their inputs  *)

\* text.strip(); " ".join(text.split())
Normalize(s) == JoinSpace(Split(Strip(s)))

ProcessTextInput(s) ==
    LET t == Normalize(s)
    IN  IF t = <<>> THEN Raised(ValueError("Provided text is empty after processing"))
        ELSE Returned(Str(t))

\* variant: text tested with "is not None" instead of its truth value
SelectSourceByNone(t, f) ==
    IF t.isNone /\ ~FileGiven(f) THEN "invalid"
    ELSE IF ~t.isNone THEN "text"
    ELSE "file"

\* variant: the file tested first
SelectSourceFileFirst(t, f) ==
    IF ~Truthy(t) /\ ~FileGiven(f) THEN "invalid"
    ELSE IF FileGiven(f) THEN "file"
    ELSE "text"

\* which branch prepare_text takes
SelectSource(t, f) ==
    IF ~Truthy(t) /\ ~FileGiven(f) THEN "invalid"
    ELSE IF Truthy(t) THEN "text"
    ELSE "file"

\* variant: any name with an extension passes
ValidateFileTypeAnyDot(name) ==
    IF ~\E k \in 1..Len(name) : name[k] = "."
    THEN HTTPException(415, "Unsupported file type")
    ELSE NoExc

ValidateFileType(name) ==
    IF ~EndsWithAny(Lower(name), SUPPORTED_EXTENSIONS)
    THEN HTTPException(415, "Unsupported file type")
    ELSE NoExc

ContentLen(c) == Len(c.head) + c.pad

ValidateFileSize(c) ==
    IF ContentLen(c) > MAX_FILE_SIZE THEN HTTPException(413, "File too large")
    ELSE IF ContentLen(c) = 0 THEN HTTPException(400, "File is empty")
    ELSE NoExc

IsTextFile(name) == EndsWithAny(Lower(name), SUPPORTED_TEXT_EXTENSIONS)

\* the for loop of _decode_text_file from position k of the chain:
\* the encodings tried, and what the function returns or raises
RECURSIVE DecodeFrom(_, _, _, _)
DecodeFrom(chain, c, k, tried) ==
    IF k > Len(chain)
    THEN [tried |-> tried, res |-> Raised(HTTPException(400, "Unable to decode text file"))]
    ELSE LET d == Decode(c.head, chain[k])
         IN  IF d.ok
             THEN [tried |-> Append(tried, chain[k]),
                   res |-> Returned([head |-> d.s, pad |-> c.pad])]
             ELSE DecodeFrom(chain, c, k + 1, Append(tried, chain[k]))

DecodeTextFile(c) == DecodeFrom(ENCODING_FALLBACKS, c, 1, <<>>)

\* not extracted_text or not extracted_text.strip()
IsBlank(s) == s = <<>> \/ Strip(s) = <<>>

\* the except clauses of _extract_text_from_file
ExtractExcept(e) ==
    IF e.cls = "HTTPException" THEN e
    ELSE IF IsException(e) THEN HTTPException(500, "Failed to extract text")
    ELSE e

\* variant: without the clause "except HTTPException: raise"
ProcessExceptWrapAll(e) ==
    IF IsException(e) THEN HTTPException(500, "Error processing file")
    ELSE e

\* the except clauses of _process_file_input
ProcessExcept(e) ==
    IF e.cls = "HTTPException" THEN e
    ELSE IF IsException(e) THEN HTTPException(500, "Error processing file")
    ELSE e

\* the except clause of the loop of prepare_text_from_files; str(e) goes into the detail
BatchExcept(e) ==
    IF IsException(e)
    THEN [cls |-> "HTTPException", status |-> 400, detail |-> "Failed to process file",
          of |-> e.detail]
    ELSE e

----------------------------------------------------------------------------
(* Inputs *)

TextInputs == {NoText} \cup {Text(s) : s \in SeqsUpTo(TextAlphabet, MaxTextLen)}

FileNames ==
    { <<>>,
      <<"n", ".", "t", "x", "t">>, <<"N", ".", "T", "X", "T">>, <<"a", ".", "r", "t", "f">>,
      <<"r", ".", "p", "d", "f">>, <<"R", ".", "D", "o", "c", "x">>,
      <<"r", ".", "x", "l", "s", "x">> }

\* payloads of a few bytes, and payloads of MAX_FILE_SIZE and MAX_FILE_SIZE + 1 bytes
Contents ==
    UNION { { [head |-> h, pad |-> p] :
                p \in {0, MAX_FILE_SIZE - Len(h), MAX_FILE_SIZE + 1 - Len(h)} } :
            h \in SeqsUpTo(SampleBytes, MaxBytes) }

FileInputs == {File(n, c) : n \in FileNames, c \in Contents}

\* the files given along with a non-empty text
FilesBesideText ==
    {NoFile} \cup {File(n, c) : n \in FileNames,
                                c \in {EmptyContent, [head |-> <<65>>, pad |-> 0]}}

\* the files of a batch: one per way _process_file_input can end
BatchFiles ==
    { File(<<>>, [head |-> <<65>>, pad |-> 0]),
      File(<<"n", ".", "t", "x", "t">>, [head |-> <<65>>, pad |-> 0]),
      File(<<"n", ".", "t", "x", "t">>, [head |-> <<195, 169>>, pad |-> 0]),
      File(<<"n", ".", "t", "x", "t">>, EmptyContent),
      File(<<"n", ".", "t", "x", "t">>, [head |-> <<>>, pad |-> MAX_FILE_SIZE + 1]),
      File(<<"r", ".", "p", "d", "f">>, [head |-> <<65>>, pad |-> 0]),
      File(<<"r", ".", "x", "l", "s", "x">>, [head |-> <<65>>, pad |-> 0]) }

\* what extractor.extract may return (None and "" are both <<>>)
ExtractorOutputs == SeqsUpTo({97, 32}, MaxExtractLen)

----------------------------------------------------------------------------
(* State machine *)

InitLocals ==
    /\ idx = 0
    /\ content = EmptyContent
    /\ exc = NoExc
    /\ ret = Str(<<>>)
    /\ results = <<>>
    /\ outcome = Pending
    /\ trace = <<>>
    /\ extracted = <<>>
    /\ pfiOut = <<>>

Init ==
    /\ mode = "prepare"
    /\ text \in TextInputs
    /\ file \in IF Truthy(text) THEN FilesBesideText ELSE FileInputs \cup {NoFile}
    /\ files = <<>>
    /\ extractorAvailable \in BOOLEAN
    /\ pc = "prepare_text"
    /\ InitLocals

InitMany ==
    /\ mode = "many"
    /\ text = NoText
    /\ file = NoFile
    /\ files \in SeqsUpTo(BatchFiles, MaxFiles)
    /\ extractorAvailable \in BOOLEAN
    /\ pc = "prepare_text_from_files"
    /\ InitLocals

inputs == <<mode, text, file, files, extractorAvailable>>

\* the parameter file of the running _process_file_input
CurFile == IF mode = "prepare" THEN file ELSE files[idx]

Log(op, d) == Append(trace, Event(idx, op, d))

PrepareText ==
    /\ pc = "prepare_text"
    /\ LET src == SelectSource(text, file)
       IN  /\ src = "invalid" =>
                /\ outcome' = Raised(ValueError("Either 'text' or 'file' must be provided"))
                /\ pc' = "done"
                /\ trace' = trace
           /\ src = "text" =>
                /\ outcome' = ProcessTextInput(text.s)
                /\ pc' = "done"
                /\ trace' = Log("process_text_input", "")
           /\ src = "file" =>
                /\ outcome' = outcome
                /\ pc' = "pfi_filename"
                /\ trace' = Log("process_file_input", "")
    /\ UNCHANGED <<inputs, idx, content, exc, ret, results, extracted, pfiOut>>

PfiFilename ==
    /\ pc = "pfi_filename"
    /\ trace' = Log("filename_check", "")
    /\ IF CurFile.name = <<>>
       THEN exc' = HTTPException(400, "File must have a filename") /\ pc' = "pfi_except"
       ELSE exc' = exc /\ pc' = "pfi_type"
    /\ UNCHANGED <<inputs, idx, content, ret, results, outcome, extracted, pfiOut>>

PfiValidateType ==
    /\ pc = "pfi_type"
    /\ trace' = Log("validate_type", "")
    /\ LET e == ValidateFileType(CurFile.name)
       IN  IF e # NoExc THEN exc' = e /\ pc' = "pfi_except"
           ELSE exc' = exc /\ pc' = "pfi_read"
    /\ UNCHANGED <<inputs, idx, content, ret, results, outcome, extracted, pfiOut>>

PfiRead ==
    /\ pc = "pfi_read"
    /\ trace' = Log("read", "")
    /\ pc' = "await_read"
    /\ UNCHANGED <<inputs, idx, content, exc, ret, results, outcome, extracted, pfiOut>>

ReadReturns ==
    /\ pc = "await_read"
    /\ content' = CurFile.content
    /\ pc' = "pfi_size"
    /\ UNCHANGED <<inputs, idx, exc, ret, results, outcome, trace, extracted, pfiOut>>

ReadRaises ==
    /\ pc = "await_read"
    /\ exc' = OtherException
    /\ trace' = Log("raised", "read")
    /\ pc' = "pfi_except"
    /\ UNCHANGED <<inputs, idx, content, ret, results, outcome, extracted, pfiOut>>

CancelRead ==
    /\ pc = "await_read"
    /\ exc' = CancelledError
    /\ trace' = Log("cancelled", "read")
    /\ pc' = "pfi_except"
    /\ UNCHANGED <<inputs, idx, content, ret, results, outcome, extracted, pfiOut>>

PfiValidateSize ==
    /\ pc = "pfi_size"
    /\ trace' = Log("validate_size", "")
    /\ LET e == ValidateFileSize(content)
       IN  IF e # NoExc THEN exc' = e /\ pc' = "pfi_except"
           ELSE exc' = exc /\ pc' = "pfi_dispatch"
    /\ UNCHANGED <<inputs, idx, content, ret, results, outcome, extracted, pfiOut>>

PfiDispatch ==
    /\ pc = "pfi_dispatch"
    /\ pc' = IF IsTextFile(CurFile.name) THEN "decode" ELSE "extract"
    /\ UNCHANGED <<inputs, idx, content, exc, ret, results, outcome, trace, extracted, pfiOut>>

PfiDecode ==
    /\ pc = "decode"
    /\ LET r == DecodeTextFile(content)
       IN  /\ trace' = trace \o [k \in 1..Len(r.tried) |-> Event(idx, "decode", r.tried[k])]
           /\ IF r.res.ok
              THEN ret' = r.res.val /\ exc' = exc /\ pc' = "pfi_finally"
              ELSE ret' = ret /\ exc' = r.res.exc /\ pc' = "pfi_except"
    /\ UNCHANGED <<inputs, idx, content, results, outcome, extracted, pfiOut>>

ExtractCheck ==
    /\ pc = "extract"
    /\ IF ~extractorAvailable
       THEN /\ exc' = HTTPException(500, "Text extraction not available")
            /\ trace' = trace
            /\ pc' = "pfi_except"
       ELSE /\ exc' = exc
            /\ trace' = Log("extract", "")
            /\ pc' = "await_extract"
    /\ UNCHANGED <<inputs, idx, content, ret, results, outcome, extracted, pfiOut>>

ExtractReturns ==
    /\ pc = "await_extract"
    /\ \E t \in ExtractorOutputs :
          /\ extracted' = (idx :> [raised |-> FALSE, val |-> t]) @@ extracted
          /\ IF IsBlank(t)
             THEN /\ exc' = ExtractExcept(HTTPException(400, "No text could be extracted"))
                  /\ ret' = ret
                  /\ pc' = "pfi_except"
             ELSE /\ exc' = exc
                  /\ ret' = Str(Strip(t))
                  /\ pc' = "pfi_finally"
    /\ UNCHANGED <<inputs, idx, content, results, outcome, trace, pfiOut>>

ExtractRaises ==
    /\ pc = "await_extract"
    /\ extracted' = (idx :> [raised |-> TRUE, val |-> <<>>]) @@ extracted
    /\ exc' = ExtractExcept(OtherException)
    /\ pc' = "pfi_except"
    /\ UNCHANGED <<inputs, idx, content, ret, results, outcome, trace, pfiOut>>

CancelExtract ==
    /\ pc = "await_extract"
    /\ exc' = ExtractExcept(CancelledError)
    /\ trace' = Log("cancelled", "extract")
    /\ pc' = "pfi_except"
    /\ UNCHANGED <<inputs, idx, content, ret, results, outcome, extracted, pfiOut>>

PfiExcept ==
    /\ pc = "pfi_except"
    /\ exc' = ProcessExcept(exc)
    /\ pc' = "pfi_finally"
    /\ UNCHANGED <<inputs, idx, content, ret, results, outcome, trace, extracted, pfiOut>>

\* variant: the file closed in the except clauses instead of a finally clause
PfiFinallyUnlessCancelled ==
    /\ pc = "pfi_finally"
    /\ trace' = IF exc = CancelledError THEN trace ELSE Log("close", "")
    /\ pfiOut' = (idx :> IF exc = NoExc THEN Returned(ret) ELSE Raised(exc)) @@ pfiOut
    /\ pc' = "pfi_exit"
    /\ UNCHANGED <<inputs, idx, content, exc, ret, results, outcome, extracted>>

PfiFinally ==
    /\ pc = "pfi_finally"
    /\ trace' = Log("close", "")
    /\ pfiOut' = (idx :> IF exc = NoExc THEN Returned(ret) ELSE Raised(exc)) @@ pfiOut
    /\ pc' = "pfi_exit"
    /\ UNCHANGED <<inputs, idx, content, exc, ret, results, outcome, extracted>>

PrepareTextReturn ==
    /\ pc = "pfi_exit"
    /\ mode = "prepare"
    /\ outcome' = IF exc = NoExc THEN Returned(ret) ELSE Raised(exc)
    /\ pc' = "done"
    /\ UNCHANGED <<inputs, idx, content, exc, ret, results, trace, extracted, pfiOut>>

ProcessFileInput ==
    \/ PfiFilename
    \/ PfiValidateType
    \/ PfiRead
    \/ ReadReturns
    \/ ReadRaises
    \/ CancelRead
    \/ PfiValidateSize
    \/ PfiDispatch
    \/ PfiDecode
    \/ ExtractCheck
    \/ ExtractReturns
    \/ ExtractRaises
    \/ CancelExtract
    \/ PfiExcept
    \/ PfiFinally

PrepareTextFromFiles ==
    /\ pc = "prepare_text_from_files"
    /\ IF files = <<>>
       THEN /\ outcome' = Raised(ValueError("At least one file must be provided"))
            /\ pc' = "done"
       ELSE /\ outcome' = outcome
            /\ pc' = "loop"
    /\ results' = <<>>
    /\ UNCHANGED <<inputs, idx, content, exc, ret, trace, extracted, pfiOut>>

\* the for statement: the next file, or the return after the last one
BatchNext ==
    /\ pc = "loop"
    /\ IF idx < Len(files)
       THEN /\ idx' = idx + 1
            /\ trace' = Append(trace, Event(idx + 1, "process_file_input", ""))
            /\ outcome' = outcome
            /\ pc' = "pfi_filename"
       ELSE /\ idx' = idx
            /\ trace' = trace
            /\ outcome' = Returned(results)
            /\ pc' = "done"
    /\ content' = EmptyContent
    /\ exc' = NoExc
    /\ ret' = Str(<<>>)
    /\ UNCHANGED <<inputs, results, extracted, pfiOut>>

\* variant: results.insert(0, text)
PrependResult(rs, t) == <<t>> \o rs

AppendResult(rs, t) == Append(rs, t)

BatchAppend ==
    /\ pc = "pfi_exit"
    /\ mode = "many"
    /\ exc = NoExc
    /\ results' = AppendResult(results, ret)
    /\ pc' = "loop"
    /\ UNCHANGED <<inputs, idx, content, exc, ret, outcome, trace, extracted, pfiOut>>

\* variant: the failed file skipped and the loop continued
BatchSkipFailed ==
    /\ pc = "pfi_exit"
    /\ mode = "many"
    /\ exc # NoExc
    /\ pc' = "loop"
    /\ UNCHANGED <<inputs, idx, content, exc, ret, results, outcome, trace, extracted, pfiOut>>

BatchRaise ==
    /\ pc = "pfi_exit"
    /\ mode = "many"
    /\ exc # NoExc
    /\ outcome' = Raised(BatchExcept(exc))
    /\ pc' = "done"
    /\ UNCHANGED <<inputs, idx, content, exc, ret, results, trace, extracted, pfiOut>>

Next ==
    \/ PrepareText
    \/ ProcessFileInput
    \/ PrepareTextReturn

Spec == Init /\ [][Next]_vars

NextMany ==
    \/ PrepareTextFromFiles
    \/ BatchNext
    \/ ProcessFileInput
    \/ BatchAppend
    \/ BatchRaise

SpecMany == InitMany /\ [][NextMany]_vars

----------------------------------------------------------------------------
(* Properties *)

\* the operations that touch a file
FileOps == {"filename_check", "validate_type", "read", "validate_size", "decode",
            "extract", "close"}

Count(i, op) == Len(SelectSeq(trace, LAMBDA e : e.i = i /\ e.op = op))
Closes(i) == Count(i, "close")
Entered(i) == Count(i, "process_file_input") > 0
\* _process_file_input was called for file i and has been left
Finished(i) == Entered(i) /\ (i # idx \/ pc \in {"pfi_exit", "loop", "done"})
Indices == {trace[k].i : k \in DOMAIN trace}

NotesTxt == <<"n", ".", "t", "x", "t">>
InvalidInput == ValueError("Either 'text' or 'file' must be provided")
EmptyInput == ValueError("Provided text is empty after processing")

\* C1: prepare_text selects its source by the presence of the inputs alone: a
\* non-empty text takes the text path whatever the file is; a text that is None
\* or "" with a file takes the file path (text "" with n.txt holding "AA"
\* returns "AA"); no text and no file raises the ValueError before anything else.
C1_SourceSelection ==
    (mode = "prepare" /\ pc # "prepare_text") =>
        /\ Truthy(text) => trace = <<Event(0, "process_text_input", "")>>
        /\ (~Truthy(text) /\ ~file.isNone) =>
              /\ trace[1] = Event(0, "process_file_input", "")
              /\ Count(0, "process_text_input") = 0
        /\ (~Truthy(text) /\ file.isNone) =>
              /\ pc = "done"
              /\ outcome = Raised(InvalidInput)
              /\ trace = <<>>
        /\ ( /\ pc = "done"
             /\ text = Text(<<>>)
             /\ file = File(NotesTxt, Str(<<65, 65>>))
             /\ Count(0, "raised") + Count(0, "cancelled") = 0 ) =>
              outcome = Returned(Str(<<65, 65>>))

C1_Witness ==
    /\ pc = "done"
    /\ text = Text(<<>>)
    /\ file = File(NotesTxt, Str(<<65, 65>>))
    /\ outcome = Returned(Str(<<65, 65>>))

\* C2: with a non-empty text the file of prepare_text is never touched (not
\* validated, read, decoded, passed to the extractor or closed), also when the
\* text normalizes to "" and the call raises; the outcome is that of the text.
C2_FileUntouched ==
    (mode = "prepare" /\ Truthy(text) /\ ~file.isNone) =>
        /\ \A k \in DOMAIN trace : trace[k].op \notin FileOps \cup {"process_file_input"}
        /\ content = EmptyContent
        /\ extracted = <<>>
        /\ pfiOut = <<>>
        /\ pc = "done" => outcome = ProcessTextInput(text.s)

C2_Witness ==
    /\ pc = "done"
    /\ text = Text(<<32, 9>>)
    /\ ~file.isNone
    /\ outcome = Raised(EmptyInput)
    /\ Closes(0) = 0

\* C3: every call of _process_file_input closes its file exactly once, however
\* it ends (return, HTTPException, wrapped exception, cancellation at the read
\* or at the extraction); close is the last operation on the file.
C3_ClosedExactlyOnce ==
    \A i \in Indices :
        /\ Closes(i) <= 1
        /\ Finished(i) => Closes(i) = 1
        /\ \A k \in DOMAIN trace :
              (trace[k].i = i /\ trace[k].op = "close") =>
                  \A j \in DOMAIN trace : (j > k) => trace[j].i # i

C3_Witness ==
    /\ pc = "done"
    /\ outcome = Raised(CancelledError)
    /\ Count(0, "cancelled") = 1
    /\ Count(0, "extract") = 1
    /\ Closes(0) = 1

\* C4: a successful prepare_text_from_files returns one element per input
\* file, element i being what _process_file_input returned for file i; the
\* files are processed one after the other in input order, file i+1 not being
\* started before file i is closed.
C4_OrderPreserved ==
    mode = "many" =>
        /\ \A j, k \in DOMAIN trace : (j < k) => trace[j].i <= trace[k].i
        /\ \A k \in DOMAIN trace :
              (trace[k].op = "process_file_input" /\ trace[k].i > 1) =>
                  \E j \in 1..(k - 1) : trace[j] = Event(trace[k].i - 1, "close", "")
        /\ (pc = "done" /\ outcome.ok /\ files # <<>>) =>
              /\ Len(outcome.val) = Len(files)
              /\ \A i \in 1..Len(files) :
                    /\ i \in DOMAIN pfiOut
                    /\ pfiOut[i].ok
                    /\ outcome.val[i] = pfiOut[i].val

C4_Witness ==
    /\ pc = "done"
    /\ mode = "many"
    /\ outcome.ok
    /\ Len(files) = 3
    /\ outcome.val[1] = Str(<<233>>)
    /\ outcome.val[2] = Str(<<65>>)
    /\ outcome.val[3] = Str(<<97>>)

\* C5: prepare_text_from_files stops at the first file whose
\* _process_file_input fails: the call raises at once and returns no results,
\* no later file is attempted in any way, and every file up to the failing one
\* has been closed exactly once.
C5_StopsAtFirstFailure ==
    mode = "many" =>
        \A k \in DOMAIN pfiOut :
            ~pfiOut[k].ok =>
                /\ \A j \in DOMAIN trace : trace[j].i <= k
                /\ \A i \in 1..k : Closes(i) = 1
                /\ \A i \in 1..(k - 1) : pfiOut[i].ok
                /\ idx = k
                /\ pc \in {"pfi_exit", "done"}
                /\ pc = "done" => (~outcome.ok /\ outcome.exc # NoExc)

C5_Witness ==
    /\ pc = "done"
    /\ mode = "many"
    /\ Len(files) = 3
    /\ pfiOut[1].ok
    /\ 2 \in DOMAIN pfiOut
    /\ ~pfiOut[2].ok
    /\ ~outcome.ok
    /\ Closes(1) = 1
    /\ Closes(2) = 1
    /\ Closes(3) = 0

RECURSIVE Collapse(_, _, _)
Collapse(s, started, pending) ==
    IF s = <<>> THEN <<>>
    ELSE IF Head(s) \in Whitespace THEN Collapse(Tail(s), started, TRUE)
    ELSE (IF started /\ pending THEN <<32>> ELSE <<>>) \o <<Head(s)>>
         \o Collapse(Tail(s), TRUE, FALSE)

TrimCollapse(s) == Collapse(s, FALSE, FALSE)

IsNormalized(out, s) ==
    /\ out.ok
    /\ out.val = Str(TrimCollapse(s))
    /\ Normalize(out.val.head) = out.val.head

\* C7 as stated: for every non-empty text t, prepare_text(text=t) returns t
\* trimmed with every whitespace run collapsed to one space, and normalizing
\* the result again changes nothing.
C7_AllNonEmptyTextsReturn ==
    (mode = "prepare" /\ pc = "done" /\ Truthy(text)) => IsNormalized(outcome, text.s)

\* C7: for every non-empty text t holding at least one non-whitespace
\* character, prepare_text(text=t) returns t trimmed with every whitespace run
\* collapsed to one space, and normalizing the result again changes nothing; a
\* non-empty text of whitespace only raises the ValueError "empty after
\* processing".
C7_NormalizedOrEmptyInput ==
    (mode = "prepare" /\ pc = "done" /\ Truthy(text)) =>
        IF \E k \in DOMAIN text.s : text.s[k] \notin Whitespace
        THEN IsNormalized(outcome, text.s)
        ELSE outcome = Raised(EmptyInput)

C7_Witness ==
    /\ pc = "done"
    /\ text = Text(<<97, 9, 98>>)
    /\ outcome = Returned(Str(<<97, 32, 98>>))

Rank(op) ==
    CASE op = "filename_check" -> 1
      [] op = "validate_type" -> 2
      [] op = "read" -> 3
      [] op = "validate_size" -> 4
      [] op \in {"decode", "extract"} -> 5
      [] op = "close" -> 6
      [] OTHER -> 0

\* the operations on file i, in the order performed
Steps(i) == SelectSeq(trace, LAMBDA e : e.i = i /\ e.op \in FileOps)

Supported(name) == EndsWithAny(Lower(name), SUPPORTED_EXTENSIONS)

\* C8: _process_file_input runs filename check, type validation, read, size
\* validation, dispatch in this order and stops at the first step that fails:
\* a file without a name or with an unsupported suffix is never read, a file
\* failing the size validation is never decoded nor extracted, and the error
\* is that of the earliest failing step.
C8_StepOrder ==
    (mode = "prepare" /\ ~Truthy(text) /\ ~file.isNone) =>
        LET st == Steps(0)
        IN  /\ \A k \in 1..(Len(st) - 1) :
                  \/ Rank(st[k].op) + 1 = Rank(st[k + 1].op)
                  \/ st[k].op = "decode" /\ st[k + 1].op = "decode"
                  \/ st[k + 1].op = "close"
            /\ st # <<>> => st[1].op = "filename_check"
            /\ (file.name = <<>> \/ ~Supported(file.name)) =>
                  Count(0, "read") + Count(0, "validate_size") = 0
            /\ (ContentLen(file.content) = 0 \/ ContentLen(file.content) > MAX_FILE_SIZE) =>
                  Count(0, "decode") + Count(0, "extract") = 0
            /\ pc = "done" =>
                  /\ file.name = <<>> =>
                        outcome = Raised(HTTPException(400, "File must have a filename"))
                  /\ (file.name # <<>> /\ ~Supported(file.name)) =>
                        outcome = Raised(HTTPException(415, "Unsupported file type"))
                  /\ outcome.exc.status = 413 =>
                        (Count(0, "validate_size") = 1 /\ Supported(file.name))

C8_Witness ==
    /\ pc = "done"
    /\ file.name = <<"r", ".", "x", "l", "s", "x">>
    /\ ContentLen(file.content) = MAX_FILE_SIZE + 1
    /\ outcome = Raised(HTTPException(415, "Unsupported file type"))
    /\ Count(0, "read") = 0
    /\ Closes(0) = 1

\* the encodings tried on file i, in the order tried
Tried(i) ==
    LET ev == SelectSeq(trace, LAMBDA e : e.i = i /\ e.op = "decode")
    IN  [k \in 1..Len(ev) |-> ev[k].d]

\* C9: a .txt or .rtf file (any letter case) that passes the size validation
\* is decoded with utf-8, latin-1, cp1252, iso-8859-1 tried in this order, the
\* first encoding that accepts the bytes giving the result and none after it
\* being tried; the decoding never fails, and the extractor is not consulted,
\* so the file succeeds whether or not the extractor is available.
C9_DecodeChain ==
    (mode = "prepare" /\ Count(0, "validate_size") = 1 /\ IsTextFile(file.name)
        /\ ValidateFileSize(file.content) = NoExc) =>
        LET tried == Tried(0)
            chain == <<"utf-8", "latin-1", "cp1252", "iso-8859-1">>
        IN  /\ Len(tried) <= Len(chain)
            /\ \A k \in 1..Len(tried) : tried[k] = chain[k]
            /\ \A k \in 1..(Len(tried) - 1) : ~Decode(file.content.head, tried[k]).ok
            /\ exc.detail # "Unable to decode text file"
            /\ Count(0, "extract") = 0
            /\ extracted = <<>>
            /\ pc = "done" =>
                  /\ tried # <<>>
                  /\ outcome = Returned([head |-> Decode(file.content.head,
                                                          tried[Len(tried)]).s,
                                         pad |-> file.content.pad])
                  /\ Decode(file.content.head, tried[Len(tried)]).ok
                  /\ file.content.head = <<195, 169>> =>
                        (tried = <<"utf-8">> /\ outcome.val.head = <<233>>)
                  /\ file.content.head = <<129>> =>
                        (tried = <<"utf-8", "latin-1">> /\ outcome.val.head = <<129>>)

C9_Witness ==
    /\ pc = "done"
    /\ ~extractorAvailable
    /\ file.name = <<"N", ".", "T", "X", "T">>
    /\ file.content = Str(<<195, 65>>)
    /\ Tried(0) = <<"utf-8", "latin-1">>
    /\ outcome = Returned(Str(<<195, 65>>))

\* C10: for a .pdf, .doc or .docx file that passes the validation, prepare_text
\* ends as the extraction ended: no extractor gives the 500 "not available"
\* without an extract call; a result that is empty or all whitespace gives the
\* 400 "no text could be extracted", not wrapped again; an exception of the
\* extractor gives the 500 "failed to extract"; a non-blank result is returned
\* stripped.
C10_ExtractionOutcomes ==
    (mode = "prepare" /\ pc = "done" /\ Count(0, "validate_size") = 1
        /\ Supported(file.name) /\ ~IsTextFile(file.name)
        /\ ValidateFileSize(file.content) = NoExc) =>
        /\ ~extractorAvailable =>
              /\ outcome = Raised(HTTPException(500, "Text extraction not available"))
              /\ Count(0, "extract") = 0
        /\ (extractorAvailable /\ 0 \in DOMAIN extracted) =>
              LET r == extracted[0]
              IN  /\ Count(0, "extract") = 1
                  /\ r.raised =>
                        outcome = Raised(HTTPException(500, "Failed to extract text"))
                  /\ (~r.raised /\ \A k \in DOMAIN r.val : r.val[k] \in Whitespace) =>
                        outcome = Raised(HTTPException(400, "No text could be extracted"))
                  /\ (~r.raised /\ \E k \in DOMAIN r.val : r.val[k] \notin Whitespace) =>
                        /\ outcome = Returned(Str(Strip(r.val)))
                        /\ Head(outcome.val.head) \notin Whitespace
                        /\ outcome.val.head[Len(outcome.val.head)] \notin Whitespace
        /\ (extractorAvailable /\ 0 \notin DOMAIN extracted) =>
              outcome = Raised(CancelledError)

C10_Witness ==
    /\ pc = "done"
    /\ file.name = <<"r", ".", "p", "d", "f">>
    /\ 0 \in DOMAIN extracted
    /\ extracted[0] = [raised |-> FALSE, val |-> <<32, 32>>]
    /\ outcome = Raised(HTTPException(400, "No text could be extracted"))
    /\ Closes(0) = 1

=============================================================================
